---- MODULE Spec2Model ----
(***************************************************************************)
(* The transactional memory access monitor of the zkVM                     *)
(* (risc0/zkvm/src/exec/monitor.rs): loads read the image directly, stores  *)
(* are buffered in pending_writes, commit applies the buffer and consumes   *)
(* the saved per-instruction result.                                        *)
(*                                                                          *)
(* The methods of MemoryMonitor are operators over a record `self` holding  *)
(* the fields of the struct; a panic (failed assert_eq!, slice index out of *)
(* bounds, unwrap of None) is recorded in the field `status` and ends the   *)
(* run.  One action per method applies the operator to the state.           *)
(***************************************************************************)
EXTENDS Integers, Sequences, FiniteSets, TLC

(***************************************************************************)
(* Bounds of the model.                                                     *)
(***************************************************************************)
\* image.buf.len(): the number of addressable bytes of the image
BufLen == 16
\* stores issued in one run
MaxStores == 2
\* commits called in one run
MaxCommits == 2
\* the page-table bases PageTableInfo::new is called with, next to the
\* layouts of the programs: 0..MaxBaseAddr
MaxBaseAddr == 300
\* iterations of the loop of PageTableInfo::new that are followed
MaxLayers == 16

(***************************************************************************)
(* Program constants.                                                       *)
(***************************************************************************)
WORD_SIZE == 4
DOUBLE_WORD_SIZE == 8
\* SYSTEM.start(), in the image of BufLen bytes: the registers are its first bytes
SYSTEM_START == 0

\* Option<T>: None is the empty sequence, Some(x) the one-element sequence
None == <<>>
Some(x) == <<x>>

(***************************************************************************)
(* Multi-byte integers.  A u16/u32/u64 is held as its little-endian         *)
(* sequence of 16-bit limbs (1, 2 or 4 of them): a u32 or u64 does not fit  *)
(* the integers TLC computes with.                                       *)
(***************************************************************************)
\* the most significant byte first: the mutant of to_le_bytes
to_be_bytes(data) ==
    [i \in 1..(2 * Len(data)) |->
        LET k == 2 * Len(data) + 1 - i IN
        IF k % 2 = 1 THEN data[(k + 1) \div 2] % 256
                     ELSE (data[k \div 2] \div 256) % 256]

\* uN::to_le_bytes: byte i (from 0) holds bits 8i..8i+7
to_le_bytes(data) ==
    [i \in 1..(2 * Len(data)) |->
        IF i % 2 = 1 THEN data[(i + 1) \div 2] % 256
                     ELSE (data[i \div 2] \div 256) % 256]

\* uN::from_le_bytes
from_le_bytes(bytes) ==
    [j \in 1..(Len(bytes) \div 2) |-> bytes[2 * j - 1] + 256 * bytes[2 * j]]

\* `x as u8`, `x as u16`, `x as u32` of a u64: the low bits
as_u8(x) == x[1] % 256
as_u16(x) == <<x[1]>>
as_u32(x) == <<x[1], x[2]>>
\* `x as u64` of a narrower unsigned value: zero extension
as_u64(x) == [j \in 1..4 |-> IF j <= Len(x) THEN x[j] ELSE 0]
\* `b as u64` of a u8
u8_as_u64(b) == <<b, 0, 0, 0>>

(***************************************************************************)
(* MemStore and the order derive(Ord) gives it: by addr, then by data.      *)
(***************************************************************************)
MemStore(addr, data) == [addr |-> addr, data |-> data]

MemStoreLe(x, y) ==
    \/ x.addr < y.addr
    \/ x.addr = y.addr /\ x.data <= y.data

\* the first element a BTreeSet<MemStore> iterator yields
First(ops) == CHOOSE op \in ops : \A o \in ops : MemStoreLe(op, o)

(***************************************************************************)
(* State: the fields of MemoryMonitor.                                      *)
(***************************************************************************)
VARIABLES
    buf,             \* image.buf: [0..BufLen-1 -> U8]
    pending_writes,  \* BTreeSet<MemStore>
    cycle,           \* usize
    op_result,       \* Option<OpCodeResult>
    syscalls,        \* Vec<SyscallRecord>
    status,          \* "ok", or the panic that ended the run
    \* history of the run, read by the properties only
    last,            \* the last call that changed the struct: its name and, of a
                     \* store, the address and the width in bytes
    committed,       \* the image as construction or the last completed commit left it
    issued,          \* the stores issued since the last commit or clear_session, in order
    written,         \* per address: what each committed instruction that stored there
                     \* stored, in commit order: Some(v) when it stored the one value
                     \* v there, None when it stored several values there
    cleared,         \* Some(image and buffer at the last clear_session), until the next store
    results,         \* the results consumed by commit since the last clear, in order
    nStores,         \* stores issued
    nCommits,        \* commits called
    \* the construction of the image's PageTableInfo
    pt,              \* the locals of PageTableInfo::new and where it stands: not
                     \* called, in its loop, returned (with the info), or panicked
    \* the construction of a MemoryImage and the calls on it
    img              \* the image MemoryImage::new returned, if it did, the
                     \* outcome of the last check and the last root computed

vars == <<buf, pending_writes, cycle, op_result, syscalls, status,
          last, committed, issued, written, cleared, results, nStores, nCommits,
          pt, img>>

\* the struct as a value
Self == [buf |-> buf, pending_writes |-> pending_writes, cycle |-> cycle,
         op_result |-> op_result, syscalls |-> syscalls, status |-> status]

\* a panic unwinds out of the method: the fields keep what was done so far
Panic(self, msg) == [self EXCEPT !.status = msg]

Ok(self) == self.status = "ok"

(***************************************************************************)
(* Loads.  A load returns [self, ret]: the struct after the call and the    *)
(* value returned (None when the call panicked).                            *)
(***************************************************************************)
Returned(self, ret) == [self |-> self, ret |-> ret]
Panicked(self, msg) == [self |-> Panic(self, msg), ret |-> None]

\* a load that also sees the bytes still buffered: the mutant of load_u8
load_u8_forwarding(self, addr) ==
    IF addr >= BufLen THEN Panicked(self, "index out of bounds")
    ELSE IF \E op \in self.pending_writes : op.addr = addr
         THEN Returned(self, (CHOOSE op \in self.pending_writes : op.addr = addr).data)
         ELSE Returned(self, self.buf[addr])

load_u8(self, addr) ==
    IF addr >= BufLen THEN Panicked(self, "index out of bounds")
    ELSE Returned(self, self.buf[addr])

\* array::from_fn(|idx| self.load_u8(addr + idx)): the first byte out of the
\* image panics
load_array(self, addr, N) ==
    IF \E idx \in 0..(N - 1) : ~Ok(load_u8(self, addr + idx).self)
    THEN Panicked(self, "index out of bounds")
    ELSE Returned(self, [i \in 1..N |-> load_u8(self, addr + (i - 1)).ret])

\* u16::from_le_bytes(self.load_array(addr)) and its u32, u64 likes
load_le(self, addr, N) ==
    LET a == load_array(self, addr, N) IN
    IF Ok(a.self) THEN Returned(a.self, from_le_bytes(a.ret)) ELSE a

load_u16(self, addr) ==
    IF addr % 2 # 0 THEN Panicked(self, "unaligned load")
    ELSE load_le(self, addr, 2)

load_u32(self, addr) ==
    IF addr % WORD_SIZE # 0 THEN Panicked(self, "unaligned load")
    ELSE load_le(self, addr, 4)

load_u64(self, addr) ==
    IF addr % DOUBLE_WORD_SIZE # 0 THEN Panicked(self, "unaligned load")
    ELSE load_le(self, addr, 8)

(***************************************************************************)
(* Stores.                                                                  *)
(***************************************************************************)
store_u8(self, addr, data) ==
    [self EXCEPT !.pending_writes = @ \cup {MemStore(addr, data)}]

\* slice.iter().enumerate().for_each(|(i, x)| self.store_u8(addr + i, *x))
RECURSIVE store_region_from(_, _, _, _)
store_region_from(self, addr, slice, i) ==
    IF i > Len(slice) THEN self
    ELSE store_region_from(store_u8(self, addr + (i - 1), slice[i]), addr, slice, i + 1)

store_region(self, addr, slice) == store_region_from(self, addr, slice, 1)

store_u16(self, addr, data) ==
    IF addr % 2 # 0 THEN Panic(self, "unaligned store")
    ELSE store_region(self, addr, to_le_bytes(data))

\* a store_u32 that asserts nothing: the mutant of store_u32
store_u32_unchecked(self, addr, data) ==
    store_region(self, addr, to_le_bytes(data))

store_u32(self, addr, data) ==
    IF addr % WORD_SIZE # 0 THEN Panic(self, "unaligned store")
    ELSE store_region(self, addr, to_le_bytes(data))

store_u64(self, addr, data) ==
    IF addr % DOUBLE_WORD_SIZE # 0 THEN Panic(self, "unaligned store")
    ELSE store_region(self, addr, to_le_bytes(data))

(***************************************************************************)
(* load_string: the bytes from addr up to the first zero byte, decoded as   *)
(* UTF-8.  A String is the sequence of its code points.                     *)
(***************************************************************************)
\* String::from_utf8, a Result<String>: ok with the chars, or not ok
RECURSIVE from_utf8(_)
from_utf8(s) ==
    IF s = <<>> THEN [ok |-> TRUE, chars |-> <<>>]
    ELSE LET b == s[1]
             n == IF b < 128 THEN 1
                  ELSE IF b \in 194..223 THEN 2
                  ELSE IF b \in 224..239 THEN 3
                  ELSE IF b \in 240..244 THEN 4
                  ELSE 0
         IN  IF \/ n = 0
                \/ Len(s) < n
                \/ \E k \in 2..n : s[k] \notin 128..191
                \/ b = 224 /\ s[2] < 160
                \/ b = 237 /\ s[2] > 159
                \/ b = 240 /\ s[2] < 144
                \/ b = 244 /\ s[2] > 143
             THEN [ok |-> FALSE, chars |-> <<>>]
             ELSE LET c == CASE n = 1 -> b
                             [] n = 2 -> (b - 192) * 64 + (s[2] - 128)
                             [] n = 3 -> (b - 224) * 4096 + (s[2] - 128) * 64 + (s[3] - 128)
                             [] n = 4 -> (b - 240) * 262144 + (s[2] - 128) * 4096
                                         + (s[3] - 128) * 64 + (s[4] - 128)
                      rest == from_utf8(SubSeq(s, n + 1, Len(s)))
                  IN  IF rest.ok THEN [ok |-> TRUE, chars |-> <<c>> \o rest.chars]
                      ELSE rest

\* the loop of load_string, with s pushed so far
RECURSIVE load_string_from(_, _, _)
load_string_from(self, addr, s) ==
    LET b == load_u8(self, addr) IN
    IF ~Ok(b.self) THEN b
    ELSE IF b.ret = 0
         THEN Returned(b.self, from_utf8(s))
         ELSE load_string_from(b.self, addr + 1, Append(s, b.ret))

load_string(self, addr) == load_string_from(self, addr, <<>>)

(***************************************************************************)
(* The registers: double-words of the system region.                        *)
(***************************************************************************)
\* registers one word apart: the mutant of get_register_addr
get_register_addr_by_word(idx) == SYSTEM_START + idx * WORD_SIZE

get_register_addr(idx) == SYSTEM_START + idx * DOUBLE_WORD_SIZE

\* the load_u64 of the println, then the load_u64 that is returned
load_register(self, idx) ==
    LET printed == load_u64(self, get_register_addr(idx)) IN
    IF ~Ok(printed.self) THEN printed
    ELSE load_u64(printed.self, get_register_addr(idx))

\* idxs.map(|idx| self.load_register(idx))
load_registers(self, idxs) ==
    IF \E k \in 1..Len(idxs) : ~Ok(load_register(self, idxs[k]).self)
    THEN LET k == CHOOSE k \in 1..Len(idxs) :
                     /\ ~Ok(load_register(self, idxs[k]).self)
                     /\ \A h \in 1..(k - 1) : Ok(load_register(self, idxs[h]).self)
         IN  load_register(self, idxs[k])
    ELSE Returned(self, [k \in 1..Len(idxs) |-> load_register(self, idxs[k]).ret])

store_register(self, idx, data) == store_u64(self, get_register_addr(idx), data)

(***************************************************************************)
(* The page faults.  The fields faults and pending_faults are commented out *)
(* of the struct, and so is every call of include, in the loads, the stores *)
(* and the clears: the monitor marks no page, whatever it is called with.   *)
(***************************************************************************)
PageFaults_default == [reads |-> {}, writes |-> {}]
faults(self) == PageFaults_default
pending_faults(self) == PageFaults_default

(***************************************************************************)
(* save_op, restore_op, commit, clear_segment, clear_session.               *)
(***************************************************************************)
save_op(self, result) == [self EXCEPT !.op_result = Some(result)]

\* a restore_op that takes the result out of the struct: the mutant of
\* restore_op
restore_op_taking(self) == Returned([self EXCEPT !.op_result = None], self.op_result)

restore_op(self) == Returned(self, self.op_result)

\* a commit that writes each byte one address further: a mutant of
\* apply_writes
RECURSIVE apply_writes_off_by_one(_, _)
apply_writes_off_by_one(self, ops) ==
    IF ops = {} THEN self
    ELSE LET op == First(ops) IN
         IF op.addr + 1 >= BufLen THEN Panic(self, "index out of bounds")
         ELSE apply_writes_off_by_one([self EXCEPT !.buf[op.addr + 1] = op.data],
                                      ops \ {op})

\* a commit that logs a write past the image and goes on to the next: a
\* mutant of apply_writes
RECURSIVE apply_writes_skipping(_, _)
apply_writes_skipping(self, ops) ==
    IF ops = {} THEN self
    ELSE LET op == First(ops) IN
         IF op.addr >= BufLen THEN apply_writes_skipping(self, ops \ {op})
         ELSE apply_writes_skipping([self EXCEPT !.buf[op.addr] = op.data], ops \ {op})

\* the writes the iterator of pending_writes still has to yield are `ops`;
\* indexing image.buf past its length panics, with the earlier writes applied
RECURSIVE apply_writes(_, _)
apply_writes(self, ops) ==
    IF ops = {} THEN self
    ELSE LET op == First(ops) IN
         IF op.addr >= BufLen THEN Panic(self, "index out of bounds")
         ELSE apply_writes([self EXCEPT !.buf[op.addr] = op.data], ops \ {op})

\* a commit that takes a missing result for one with no syscall: a mutant of
\* take_result
take_result_or_default(self) ==
    LET cleared_ == [self EXCEPT !.pending_writes = {}, !.op_result = None] IN
    IF self.op_result # None /\ self.op_result[1].syscall # None
    THEN [cleared_ EXCEPT !.syscalls = Append(@, self.op_result[1].syscall[1])]
    ELSE cleared_

\* a commit that logs the syscall in front of the earlier ones: a mutant of
\* take_result
take_result_log_in_front(self) ==
    LET cleared_ == [self EXCEPT !.pending_writes = {}] IN
    IF cleared_.op_result = None THEN Panic(cleared_, "unwrap on None")
    ELSE LET result == cleared_.op_result[1]
             taken == [cleared_ EXCEPT !.op_result = None]
         IN  IF result.syscall # None
             THEN [taken EXCEPT !.syscalls = <<result.syscall[1]>> \o @]
             ELSE taken

\* a commit that leaves the buffer as it is: a mutant of take_result
take_result_keep_writes(self) ==
    IF self.op_result = None THEN Panic(self, "unwrap on None")
    ELSE LET result == self.op_result[1]
             taken == [self EXCEPT !.op_result = None]
         IN  IF result.syscall # None
             THEN [taken EXCEPT !.syscalls = Append(@, result.syscall[1])]
             ELSE taken

\* the rest of commit, after the loop over pending_writes
take_result(self) ==
    LET cleared_ == [self EXCEPT !.pending_writes = {}] IN
    IF cleared_.op_result = None THEN Panic(cleared_, "unwrap on None")
    ELSE LET result == cleared_.op_result[1]
             taken == [cleared_ EXCEPT !.op_result = None]
         IN  IF result.syscall # None
             THEN [taken EXCEPT !.syscalls = Append(@, result.syscall[1])]
             ELSE taken

commit(self) ==
    LET applied == apply_writes(self, self.pending_writes) IN
    IF Ok(applied) THEN take_result(applied) ELSE applied

\* a clear_segment that drops the buffered writes too: the mutant of
\* clear_segment
clear_segment_and_writes(self) == [self EXCEPT !.syscalls = <<>>, !.pending_writes = {}]

clear_segment(self) == [self EXCEPT !.syscalls = <<>>]

\* a clear_session that keeps the buffered writes: the mutant of clear_session
clear_session_keep_writes(self) == clear_segment(self)

clear_session(self) == [clear_segment(self) EXCEPT !.pending_writes = {}]

(***************************************************************************)
(* impl Memory for MemoryMonitor; size is the width in bytes of the         *)
(* MemAccessSize: Byte 1, HalfWord 2, Word 4, DoubleWord 8.                  *)
(***************************************************************************)
read_mem(self, addr, size) ==
    LET r == CASE size = 1 -> load_u8(self, addr)
               [] size = 2 -> load_u16(self, addr)
               [] size = 4 -> load_u32(self, addr)
               [] size = 8 -> load_u64(self, addr)
    IN  IF ~Ok(r.self) THEN r
        ELSE IF size = 1 THEN Returned(r.self, Some(u8_as_u64(r.ret)))
        ELSE Returned(r.self, Some(as_u64(r.ret)))

write_mem(self, addr, size, store_data) ==
    LET s == CASE size = 1 -> store_u8(self, addr, as_u8(store_data))
               [] size = 2 -> store_u16(self, addr, as_u16(store_data))
               [] size = 4 -> store_u32(self, addr, as_u32(store_data))
               [] size = 8 -> store_u64(self, addr, store_data)
    IN  IF Ok(s) THEN Returned(s, TRUE) ELSE Returned(s, None)

(***************************************************************************)
(* PageTableInfo (binfmt/image.rs): the geometry of the page table.  The    *)
(* variable pt holds the locals of PageTableInfo::new while it runs, and    *)
(* its outcome: the info it returns or the panic that ended it.             *)
(***************************************************************************)
DIGEST_BYTES == 32
BLOCK_BYTES == 64
\* PAGE_TABLE.start()
PAGE_TABLE_START == 218103808
\* PAGE_SIZE
PAGE_SIZE == 1024

\* a division that rounds down: the mutant of div_ceil
div_floor(a, b) == a \div b

div_ceil(a, b) == (a + b - 1) \div b

\* no rounding at all: the mutant of round_up
round_up_identity(a, b) == a

round_up(a, b) == div_ceil(a, b) * b

\* PageTableInfo::new has not been called
NotCalled ==
    [pc |-> "not called", msg |-> "", page_table_addr |-> 0, page_size |-> 0,
     layers |-> <<>>, page_table_size |-> 0, remain |-> 0, info |-> None]

\* the entry of new: the first assertion and the locals before the loop
new_entry(page_table_addr, page_size) ==
    LET max_mem == page_table_addr
        l == [NotCalled EXCEPT !.page_table_addr = page_table_addr,
                               !.page_size = page_size]
    IN  IF ~(max_mem >= page_size)
        THEN [l EXCEPT !.pc = "panic", !.msg = "assertion failed: max_mem >= page_size"]
        ELSE [l EXCEPT !.pc = "while", !.remain = max_mem]

\* the condition of the while loop
while_cond(l) == l.remain >= l.page_size

\* an iteration that scales by the page size again: the mutant of while_body
while_body_no_shrink(l) ==
    IF l.page_size = 0
    THEN [l EXCEPT !.pc = "panic", !.msg = "attempt to divide by zero"]
    ELSE LET num_pages == l.remain \div l.page_size
             remain == num_pages * l.page_size
         IN  [l EXCEPT !.remain = remain,
                       !.layers = Append(@, remain),
                       !.page_table_size = @ + remain]

\* an iteration that pushes the page count, not the bytes: a mutant of while_body
while_body_push_pages(l) ==
    IF l.page_size = 0
    THEN [l EXCEPT !.pc = "panic", !.msg = "attempt to divide by zero"]
    ELSE LET num_pages == l.remain \div l.page_size
             remain == num_pages * DIGEST_BYTES
         IN  [l EXCEPT !.remain = remain,
                       !.layers = Append(@, num_pages),
                       !.page_table_size = @ + remain]

\* one iteration of the while loop
while_body(l) ==
    IF l.page_size = 0
    THEN [l EXCEPT !.pc = "panic", !.msg = "attempt to divide by zero"]
    ELSE LET num_pages == l.remain \div l.page_size
             remain == num_pages * DIGEST_BYTES
         IN  [l EXCEPT !.remain = remain,
                       !.layers = Append(@, remain),
                       !.page_table_size = @ + remain]

\* the root page placed one page further: the mutant of after_while
after_while_next_page(l) ==
    LET max_mem == l.page_table_addr + l.page_table_size
        num_pages == max_mem \div l.page_size
        page_table_size == round_up(l.page_table_size, BLOCK_BYTES)
        root_addr == l.page_table_addr + page_table_size
        root_idx == root_addr \div l.page_size
        root_page_addr == (root_idx + 1) * l.page_size
        num_root_entries == (root_addr - root_page_addr) \div DIGEST_BYTES
    IN  IF root_idx # num_pages
        THEN [l EXCEPT !.pc = "panic", !.msg = "assertion failed: root_idx == num_pages"]
        ELSE [l EXCEPT !.pc = "returned",
                       !.info = Some([page_size |-> l.page_size,
                                      page_table_addr |-> l.page_table_addr,
                                      page_table_size |-> page_table_size,
                                      root_addr |-> root_addr,
                                      root_page_addr |-> root_page_addr,
                                      num_root_entries |-> num_root_entries,
                                      root_idx |-> root_idx,
                                      num_pages |-> num_pages,
                                      layers |-> l.layers])]

\* the rest of new, after the loop: the root and the second assertion
after_while(l) ==
    LET max_mem == l.page_table_addr + l.page_table_size
        num_pages == max_mem \div l.page_size
        page_table_size == round_up(l.page_table_size, BLOCK_BYTES)
        root_addr == l.page_table_addr + page_table_size
        root_idx == root_addr \div l.page_size
        root_page_addr == root_idx * l.page_size
        num_root_entries == (root_addr - root_page_addr) \div DIGEST_BYTES
    IN  IF root_idx # num_pages
        THEN [l EXCEPT !.pc = "panic", !.msg = "assertion failed: root_idx == num_pages"]
        ELSE [l EXCEPT !.pc = "returned",
                       !.info = Some([page_size |-> l.page_size,
                                      page_table_addr |-> l.page_table_addr,
                                      page_table_size |-> page_table_size,
                                      root_addr |-> root_addr,
                                      root_page_addr |-> root_page_addr,
                                      num_root_entries |-> num_root_entries,
                                      root_idx |-> root_idx,
                                      num_pages |-> num_pages,
                                      layers |-> l.layers])]

\* new as one call: the loop run to its end, as far as MaxLayers layers
RECURSIVE run_while(_)
run_while(l) ==
    IF l.pc # "while" THEN l
    ELSE IF while_cond(l)
         THEN IF Len(l.layers) < MaxLayers THEN run_while(while_body(l)) ELSE l
         ELSE after_while(l)

PageTableInfo_new(page_table_addr, page_size) ==
    run_while(new_entry(page_table_addr, page_size))

get_page_addr(info, page_idx) == page_idx * info.page_size
get_page_index(info, addr) == addr \div info.page_size
get_page_entry_addr(info, page_idx) == info.page_table_addr + page_idx * DIGEST_BYTES

(***************************************************************************)
(* MemoryImage (binfmt/image.rs).  The memory is held in cells of one       *)
(* digest (DIGEST_BYTES bytes) each, which is the unit hash_page and the    *)
(* page-table entries read it in.  A cell is <<"bytes", w>>, w the set of   *)
(* <<offset, word>> pairs written into the zeroed cell, or a digest.  The   *)
(* compression function is outside this repository: it is kept opaque, a    *)
(* digest being the term of the compressions that produced it.              *)
(***************************************************************************)
SHA256_INIT == <<"SHA256_INIT">>
compress(state, block1, block2) == <<"compress", state, block1, block2>>

ZeroCell == <<"bytes", {}>>
CellOf(addr) == addr \div DIGEST_BYTES

\* &buf[addr..addr + len], as cells
Slice(mem, addr, len) ==
    [i \in 1..(len \div DIGEST_BYTES) |-> mem[CellOf(addr) + i - 1]]

\* the loop of hash_page over the blocks of the page
RECURSIVE fold_blocks(_, _)
fold_blocks(state, page) ==
    IF page = <<>> THEN state
    ELSE fold_blocks(compress(state, page[1], page[2]), Tail(Tail(page)))

hash_page(page) ==
    IF (Len(page) * DIGEST_BYTES) % BLOCK_BYTES # 0
    THEN <<"panic", "assertion failed: page.len() % BLOCK_BYTES == 0">>
    ELSE fold_blocks(SHA256_INIT, page)

\* program_region.write_mem(addr, Word, data) on the cell holding addr
write_word(mem, addr, data) ==
    [mem EXCEPT ![CellOf(addr)] =
        <<"bytes", {w \in @[2] : w[1] # addr % DIGEST_BYTES}
                       \cup (IF data = 0 THEN {} ELSE {<<addr % DIGEST_BYTES, data>>})>>]

\* the loop of MemoryImage::new over program.image, in ascending address order
RECURSIVE load_program(_, _)
load_program(mem, image) ==
    IF image = {} THEN mem
    ELSE LET e == CHOOSE x \in image : \A y \in image : x[1] <= y[1]
         IN  load_program(write_word(mem, e[1], e[2]), image \ {e})

hash_pages(image) == image

\* the image new returns for `program` in the layout with the page table at
\* page_table_start; the memory ends with the page of the root
MemoryImage_new(program, page_table_start, page_size) ==
    LET l == PageTableInfo_new(page_table_start, page_size)
    IN  IF l.pc # "returned" THEN [pc |-> "panic", msg |-> l.msg, image |-> None]
        ELSE LET info == l.info[1]
                 cells == CellOf((info.root_idx + 1) * page_size)
                 buf0 == [c \in 0..(cells - 1) |-> ZeroCell]
             IN  [pc |-> "constructed", msg |-> "",
                  image |-> Some(hash_pages([buf |-> load_program(buf0, program),
                                             info |-> info]))]

get_root(image) == hash_page(<<>>)

\* the while loop of check, from page_idx on: "Ok" when it is left
RECURSIVE check_pages(_, _)
check_pages(image, page_idx) ==
    IF ~(page_idx < image.info.root_idx) THEN "Ok"
    ELSE LET page_addr == get_page_addr(image.info, page_idx)
             page == Slice(image.buf, page_addr, image.info.page_size)
             expected == hash_page(page)
             entry_addr == get_page_entry_addr(image.info, page_idx)
             actual == Slice(image.buf, entry_addr, DIGEST_BYTES)[1]
         IN  IF expected[1] = "panic" THEN expected[2]
             ELSE IF expected # actual THEN "Invalid page table entry"
             ELSE check_pages(image, get_page_index(image.info, entry_addr))

check(image, addr) ==
    LET walked == check_pages(image, get_page_index(image.info, addr))
        root_page_addr == image.info.root_page_addr
        root_page_bytes == image.info.num_root_entries * DIGEST_BYTES
        root_page == Slice(image.buf, root_page_addr, root_page_bytes)
        expected == hash_page(root_page)
        root == get_root(image)
    IN  IF walked # "Ok" THEN walked
        ELSE IF expected[1] = "panic" THEN expected[2]
        ELSE IF expected # root THEN "Invalid root hash"
        ELSE "Ok"

\* MemoryImage::new has not been called
NoImage == [pc |-> "no image", msg |-> "", image |-> None, checked |-> None, root |-> None]

(***************************************************************************)
(* The inputs of the calls.                                                 *)
(***************************************************************************)
\* 0 is aligned for every width, 1 for none, 4 for a half-word and a word;
\* BufLen is the first address past the image
Addrs == {0, 1, 4, BufLen}
\* the addresses of the byte accesses: two bytes of the image, and the first
\* address past it
ByteAddrs == {0, 1, BufLen}
Bytes == {1, 2}
HalfWords == {<<513>>}
Words == {<<1027, 1541>>}
DoubleWords == {<<2055, 2569, 3083, 3597>>}
\* the store_data of write_mem: a u64 with bits set above every narrower width
StoreData == {<<513, 1027, 1541, 2055>>}
Sizes == {1, 2, 4, 8}
\* OpCodeResult, as far as the monitor reads it: its syscall field
OpCodeResults == {[syscall |-> None], [syscall |-> Some("sc1")], [syscall |-> Some("sc2")]}
\* the images a monitor is constructed over
Images == {[a \in 0..(BufLen - 1) |-> 0], [a \in 0..(BufLen - 1) |-> 16 + 7 * a]}

Called(op, addr, size) == [op |-> op, addr |-> addr, size |-> size]

(***************************************************************************)
(* MemoryMonitor::new.                                                      *)
(***************************************************************************)
Init ==
    /\ buf \in Images
    /\ pending_writes = {}
    /\ cycle = 0
    /\ op_result = None
    /\ syscalls = <<>>
    /\ status = "ok"
    /\ last = Called("new", 0, 0)
    /\ committed = buf
    /\ issued = <<>>
    /\ written = [a \in 0..(BufLen - 1) |-> <<>>]
    /\ cleared = None
    /\ results = <<>>
    /\ nStores = 0
    /\ nCommits = 0
    /\ pt = NotCalled
    /\ img = NoImage

\* the struct after a call
Set(self) ==
    /\ buf' = self.buf
    /\ pending_writes' = self.pending_writes
    /\ cycle' = self.cycle
    /\ op_result' = self.op_result
    /\ syscalls' = self.syscalls
    /\ status' = self.status
    /\ UNCHANGED <<pt, img>>

\* a load leaves the struct as it is, or panics; what it returns is the ret
\* of the method
Load(r) ==
    /\ status = "ok"
    /\ Set(r.self)
    /\ UNCHANGED <<last, committed, issued, written, cleared, results, nStores, nCommits>>

\* a store of `bytes` at addr: the struct after it
Store(op, addr, bytes, self) ==
    /\ status = "ok"
    /\ nStores < MaxStores
    /\ Set(self)
    /\ last' = Called(op, addr, Len(bytes))
    /\ issued' = IF Ok(self)
                 THEN issued \o [i \in 1..Len(bytes) |-> MemStore(addr + (i - 1), bytes[i])]
                 ELSE issued
    /\ cleared' = IF Ok(self) THEN None ELSE cleared
    /\ nStores' = nStores + 1
    /\ UNCHANGED <<committed, written, results, nCommits>>

call_load_u8(addr) == Load(load_u8(Self, addr))
call_load_u16(addr) == Load(load_u16(Self, addr))
call_load_u32(addr) == Load(load_u32(Self, addr))
call_load_u64(addr) == Load(load_u64(Self, addr))
call_read_mem(addr, size) == Load(read_mem(Self, addr, size))
call_restore_op == Load(restore_op(Self))

call_store_u8(addr, data) ==
    Store("store_u8", addr, <<data>>, store_u8(Self, addr, data))
call_store_u16(addr, data) ==
    Store("store_u16", addr, to_le_bytes(data), store_u16(Self, addr, data))
call_store_u32(addr, data) ==
    Store("store_u32", addr, to_le_bytes(data), store_u32(Self, addr, data))
call_store_u64(addr, data) ==
    Store("store_u64", addr, to_le_bytes(data), store_u64(Self, addr, data))
call_write_mem(addr, size, store_data) ==
    Store("write_mem", addr, SubSeq(to_le_bytes(store_data), 1, size),
          write_mem(Self, addr, size, store_data).self)

call_save_op(result) ==
    /\ status = "ok"
    /\ Set(save_op(Self, result))
    /\ last' = Called("save_op", 0, 0)
    /\ UNCHANGED <<committed, issued, written, cleared, results, nStores, nCommits>>

\* the values the stores of `iss` gave address a
StoredAt(iss, a) == {iss[i].data : i \in {j \in 1..Len(iss) : iss[j].addr = a}}

call_commit ==
    /\ status = "ok"
    /\ nCommits < MaxCommits
    /\ LET self == commit(Self) IN
       /\ Set(self)
       /\ committed' = IF Ok(self) THEN self.buf ELSE committed
       /\ issued' = IF Ok(self) THEN <<>> ELSE issued
       /\ written' = IF Ok(self)
                     THEN [a \in 0..(BufLen - 1) |->
                             LET vs == StoredAt(issued, a) IN
                             IF vs = {} THEN written[a]
                             ELSE IF Cardinality(vs) = 1
                                  THEN Append(written[a], Some(CHOOSE v \in vs : TRUE))
                                  ELSE Append(written[a], None)]
                     ELSE written
       /\ results' = IF Ok(self) THEN results \o op_result ELSE results
    /\ last' = Called("commit", 0, 0)
    /\ nCommits' = nCommits + 1
    /\ UNCHANGED <<cleared, nStores>>

call_clear_segment ==
    /\ status = "ok"
    /\ Set(clear_segment(Self))
    /\ last' = Called("clear_segment", 0, 0)
    /\ results' = <<>>
    /\ UNCHANGED <<committed, issued, written, cleared, nStores, nCommits>>

call_clear_session ==
    /\ status = "ok"
    /\ Set(clear_session(Self))
    /\ last' = Called("clear_session", 0, 0)
    /\ results' = <<>>
    /\ issued' = <<>>
    /\ cleared' = Some([image |-> buf, dropped |-> pending_writes])
    /\ UNCHANGED <<committed, written, nStores, nCommits>>

(***************************************************************************)
(* The execution loop issuing byte accesses, instruction after instruction, *)
(* with the segment and session boundaries of the prover.                   *)
(***************************************************************************)
Next ==
    \/ \E addr \in ByteAddrs : call_load_u8(addr)
    \/ call_restore_op
    \/ \E addr \in ByteAddrs, data \in Bytes : call_store_u8(addr, data)
    \/ \E result \in OpCodeResults : call_save_op(result)
    \/ call_commit
    \/ call_clear_segment
    \/ call_clear_session

Spec == Init /\ [][Next]_vars

(***************************************************************************)
(* The execution loop issuing the multi-byte accesses, each of them a       *)
(* sequence of byte accesses, directly and through the Memory trait.        *)
(***************************************************************************)
NextWide ==
    \/ \E addr \in Addrs : call_load_u16(addr)
    \/ \E addr \in Addrs : call_load_u32(addr)
    \/ \E addr \in Addrs : call_load_u64(addr)
    \/ \E addr \in Addrs, size \in Sizes : call_read_mem(addr, size)
    \/ \E addr \in Addrs, data \in HalfWords : call_store_u16(addr, data)
    \/ \E addr \in Addrs, data \in Words : call_store_u32(addr, data)
    \/ \E addr \in Addrs, data \in DoubleWords : call_store_u64(addr, data)
    \/ \E addr \in Addrs, size \in Sizes, data \in StoreData : call_write_mem(addr, size, data)
    \/ call_save_op([syscall |-> None])
    \/ call_commit

SpecWide == Init /\ [][NextWide]_vars

(***************************************************************************)
(* The execution loop reading and writing the registers.                    *)
(***************************************************************************)
\* two registers inside the image, and the first one past it
Regs == {0, 1, BufLen \div DOUBLE_WORD_SIZE}
RegValues == {<<2055, 2569, 3083, 3597>>, <<65535, 0, 1, 32768>>}

call_load_register(idx) == Load(load_register(Self, idx))
call_load_registers(idxs) == Load(load_registers(Self, idxs))
call_store_register(idx, data) ==
    Store("store_register", get_register_addr(idx), to_le_bytes(data),
          store_register(Self, idx, data))

NextReg ==
    \/ \E idx \in Regs : call_load_register(idx)
    \/ \E i \in Regs, j \in Regs : call_load_registers(<<i, j>>)
    \/ \E idx \in Regs, data \in RegValues : call_store_register(idx, data)
    \/ call_save_op([syscall |-> None])
    \/ call_commit

SpecReg == Init /\ [][NextReg]_vars

(***************************************************************************)
(* The execution loop calling every load there is, between stores of bytes  *)
(* and of double-words and the commits of their instructions.               *)
(***************************************************************************)
\* N of load_array::<N>
ArrayLens == {1, 3}
\* byte stores that spell strings: an ASCII byte, the lead byte of a
\* two-byte character, and its continuation byte
StringStores == {<<0, 65>>, <<0, 195>>, <<1, 169>>}

call_load_array(addr, N) == Load(load_array(Self, addr, N))
call_load_string(addr) == Load(load_string(Self, addr))

\* a call of one of the loads
LoadCall ==
    \/ \E addr \in Addrs : call_load_u8(addr)
    \/ \E addr \in Addrs : call_load_u16(addr)
    \/ \E addr \in Addrs : call_load_u32(addr)
    \/ \E addr \in Addrs : call_load_u64(addr)
    \/ \E addr \in Addrs, N \in ArrayLens : call_load_array(addr, N)
    \/ \E idx \in Regs : call_load_register(idx)
    \/ \E i \in Regs, j \in Regs : call_load_registers(<<i, j>>)
    \/ \E addr \in Addrs : call_load_string(addr)
    \/ \E addr \in Addrs, size \in Sizes : call_read_mem(addr, size)
    \/ call_restore_op

NextLoads ==
    \/ LoadCall
    \/ \E st \in StringStores : call_store_u8(st[1], st[2])
    \/ \E data \in DoubleWords : call_store_u64(DOUBLE_WORD_SIZE, data)
    \/ call_save_op([syscall |-> Some("sc1")])
    \/ call_commit

SpecLoads == Init /\ [][NextLoads]_vars

(***************************************************************************)
(* PageTableInfo::new, statement by statement: the entry, the iterations of *)
(* the while loop, and the statements after it.                             *)
(***************************************************************************)
monitor_vars == <<buf, pending_writes, cycle, op_result, syscalls, status,
                  last, committed, issued, written, cleared, results, nStores, nCommits>>

\* page sizes around the digest and the block, none of them excluded by the
\* signature of new
PageSizes == {0, 16, 32, 33, 48, 64, 96, 128}
\* the layouts the programs and the tests construct
Layouts == {<<PAGE_TABLE_START, 1024>>, <<268435456, 1024>>, <<268435456, 4096>>,
            <<6656, 1024>>, <<1024, 1024>>, <<2048, 1024>>, <<262144, 1024>>,
            <<4096, 4096>>, <<8192, 4096>>, <<2097152, 4096>>, <<31744, 1024>>}
NewArgs == ((0..MaxBaseAddr) \X PageSizes) \cup Layouts

call_new(page_table_addr, page_size) ==
    /\ pt = NotCalled
    /\ pt' = new_entry(page_table_addr, page_size)
    /\ UNCHANGED <<monitor_vars, img>>

step_while ==
    /\ pt.pc = "while"
    /\ while_cond(pt)
    /\ Len(pt.layers) < MaxLayers
    /\ pt' = while_body(pt)
    /\ UNCHANGED <<monitor_vars, img>>

step_after_while ==
    /\ pt.pc = "while"
    /\ ~while_cond(pt)
    /\ pt' = after_while(pt)
    /\ UNCHANGED <<monitor_vars, img>>

NextNew ==
    \/ \E args \in NewArgs : call_new(args[1], args[2])
    \/ step_while
    \/ step_after_while

SpecNew == Init /\ [][NextNew]_vars

\* the thread that runs new keeps running
SpecNewFair == SpecNew /\ WF_vars(step_while) /\ WF_vars(step_after_while)

(***************************************************************************)
(* A MemoryImage constructed for a program, then checked and asked for its  *)
(* root.  The layouts are PAGE_TABLE.start() and the page size scaled down  *)
(* to trees of one and of two layers.                                       *)
(***************************************************************************)
\* program.image: words at addresses of the primary memory
ProgramWords == {<<0, 1>>, <<4, 2>>, <<128, 1>>, <<252, 3>>}
Programs == SUBSET ProgramWords
\* <<page-table base, page size>>: one layer, two layers, and a layout whose
\* root-index assertion fails
ImageLayouts == {<<256, 128>>, <<512, 128>>, <<64, 64>>}

\* the addresses check is called with: in the first page, in the second, the
\* last byte of the primary memory, and the root page
CheckAddrs(image) ==
    {0, 130, image.info.page_table_addr - 1, image.info.root_page_addr}

call_MemoryImage_new(program, page_table_start, page_size) ==
    /\ img = NoImage
    /\ LET r == MemoryImage_new(program, page_table_start, page_size)
       IN  img' = [NoImage EXCEPT !.pc = r.pc, !.msg = r.msg, !.image = r.image]
    /\ UNCHANGED <<monitor_vars, pt>>

call_check(addr) ==
    /\ img.pc = "constructed"
    /\ img' = [img EXCEPT !.checked =
                  Some([addr |-> addr, result |-> check(img.image[1], addr)])]
    /\ UNCHANGED <<monitor_vars, pt>>

call_get_root ==
    /\ img.pc = "constructed"
    /\ img' = [img EXCEPT !.root = Some(get_root(img.image[1]))]
    /\ UNCHANGED <<monitor_vars, pt>>

NextImage ==
    \/ \E program \in Programs, layout \in ImageLayouts :
          call_MemoryImage_new(program, layout[1], layout[2])
    \/ img.pc = "constructed" /\ \E addr \in CheckAddrs(img.image[1]) : call_check(addr)
    \/ call_get_root

SpecImage == Init /\ [][NextImage]_vars

(***************************************************************************)
(* Properties.                                                              *)
(***************************************************************************)
\* the addresses of the image
ImageAddrs == 0..(BufLen - 1)

\* a step that is a call of commit
Committing == nCommits' = nCommits + 1

\* the value of the last store of `iss` to address a
LastStoredAt(iss, a) ==
    iss[CHOOSE i \in 1..Len(iss) :
            /\ iss[i].addr = a
            /\ \A j \in (i + 1)..Len(iss) : iss[j].addr # a].data

\* C1: commit atomicity.  After save_op and a commit that returns, a load of
\* the address of every write that was buffered returns the byte of that
\* write, and the pending-write set is empty.
C1_CommitAtomicity ==
    [][(Committing /\ op_result # None /\ status' = "ok") =>
          /\ \A w \in pending_writes : load_u8(Self', w.addr).ret = w.data
          /\ pending_writes' = {}]_vars

\* C2: a store is not visible before commit.  Whatever was stored since, every
\* load returns the byte the image held at construction or at the last
\* completed commit.
C2_StoreNotVisible ==
    status = "ok" => \A a \in ImageAddrs : load_u8(Self, a).ret = committed[a]

\* C2, its case: a write is buffered for a byte of the image that holds
\* another value, and the load of that address does not return the write
C2_Witness ==
    /\ status = "ok"
    /\ last.op = "store_u8"
    /\ \E w \in pending_writes :
          /\ w.addr \in ImageAddrs
          /\ w.data # committed[w.addr]
          /\ load_u8(Self, w.addr).ret # w.data

\* C3: last write wins.  The buffer holds, for an address, only the value
\* issued last for it in the instruction, and after the commit a load of the
\* address returns that value.
C3_LastWriteWins ==
    [][/\ \A w \in pending_writes' : w.data = LastStoredAt(issued', w.addr)
       /\ (Committing /\ status' = "ok") =>
             \A a \in ImageAddrs :
                 StoredAt(issued, a) # {} =>
                     load_u8(Self', a).ret = LastStoredAt(issued, a)]_vars

\* C4: a commit with no saved result is a fatal error, be it that save_op was
\* never called or that an earlier commit consumed the result; with every
\* buffered write inside the image the error is the missing result.
C4_CommitWithoutResult ==
    [][(Committing /\ op_result = None) =>
          /\ status' # "ok"
          /\ (\A w \in pending_writes : w.addr \in ImageAddrs) => status' = "unwrap on None"]_vars

\* C4, its case: a first commit consumed the saved result and the second
\* commit, with no save_op in between, panicked
C4_Witness ==
    /\ status = "unwrap on None"
    /\ last.op = "commit"
    /\ nCommits = 2
    /\ Len(results) = 1

\* C5: all or nothing.  A commit called with no saved result applies none of
\* the buffered writes: the image is as it was when the commit is rejected.
C5_AllOrNothing ==
    [][(Committing /\ op_result = None) => buf' = buf]_vars

\* C6: clear_session discards the buffered writes.  From a clear_session
\* until the next store the pending-write set is empty and every load returns
\* the byte the image held at the clear_session, whatever save_op and commit
\* were called since.
C6_ClearSessionDiscards ==
    cleared # None =>
        /\ pending_writes = {}
        /\ \A a \in ImageAddrs : load_u8(Self, a).ret = cleared[1].image[a]

\* C6, its case: clear_session dropped a write that would have changed a byte
\* of the image, save_op and commit followed, and the byte is as it was
C6_Witness ==
    /\ cleared # None
    /\ last.op = "commit"
    /\ status = "ok"
    /\ \E w \in cleared[1].dropped :
          /\ w.addr \in ImageAddrs
          /\ w.data # cleared[1].image[w.addr]
          /\ load_u8(Self, w.addr).ret # w.data

\* C7: clear_segment empties the syscall log and leaves the pending-write
\* buffer, the saved result and the image as they were.
C7_ClearSegmentFrame ==
    [][call_clear_segment =>
          /\ syscalls' = <<>>
          /\ pending_writes' = pending_writes
          /\ op_result' = op_result
          /\ buf' = buf]_vars

\* C7, its case: clear_segment was called after a commit, with writes
\* buffered and a result saved, and both are still there
C7_Witness ==
    /\ last.op = "clear_segment"
    /\ nCommits > 0
    /\ syscalls = <<>>
    /\ pending_writes # {}
    /\ op_result # None

\* the syscall records the results `rs` carry, in order
RECURSIVE SyscallsOf(_)
SyscallsOf(rs) ==
    IF rs = <<>> THEN <<>>
    ELSE (IF Head(rs).syscall # None THEN <<Head(rs).syscall[1]>> ELSE <<>>)
         \o SyscallsOf(Tail(rs))

\* C8: the syscall log holds the syscall records of the results committed
\* since the last clear_segment or clear_session, in commit order; a result
\* with no syscall record adds nothing.
C8_SyscallLog ==
    syscalls = SyscallsOf(results)

\* C8, its case: two commits logged two different syscalls
C8_Witness ==
    /\ last.op = "commit"
    /\ status = "ok"
    /\ Len(results) = 2
    /\ syscalls = <<"sc2", "sc1">>

\* C9: instructions are sequential.  A load of an address returns the value
\* stored there by the last committed instruction that stored to it (when
\* that instruction stored one value there), not that of an earlier one.
C9_Sequential ==
    status = "ok" =>
        \A a \in ImageAddrs :
            (written[a] # <<>> /\ written[a][Len(written[a])] # None) =>
                load_u8(Self, a).ret = written[a][Len(written[a])][1]

\* C9, its case: an instruction stored 2 and committed, a later one stored 1
\* to the same address and committed, and the load returns 1
C9_Witness ==
    /\ status = "ok"
    /\ \E a \in ImageAddrs :
          /\ written[a] = <<Some(2), Some(1)>>
          /\ load_u8(Self, a).ret = 1

\* the widths of the multi-byte accesses
Widths == {2, WORD_SIZE, DOUBLE_WORD_SIZE}

\* the load of width N
LoadOf(self, addr, N) ==
    CASE N = 2 -> load_u16(self, addr)
      [] N = 4 -> load_u32(self, addr)
      [] N = 8 -> load_u64(self, addr)

\* a step that is a call of a store
Storing == nStores' = nStores + 1

\* C10: alignment.  In every state the monitor reaches, a load of width 2, 4
\* or 8 at an address that is no multiple of the width panics, called directly
\* or through read_mem; every store of width 2, 4 or 8 at such an address,
\* called directly or through write_mem, panics and leaves the pending-write
\* buffer as it was.
C10_Alignment ==
    /\ [](status = "ok" =>
            \A addr \in Addrs, N \in Widths :
                addr % N # 0 =>
                    /\ LoadOf(Self, addr, N).self.status = "unaligned load"
                    /\ read_mem(Self, addr, N).self.status = "unaligned load")
    /\ [][(Storing /\ last'.addr % last'.size # 0) =>
             /\ status' = "unaligned store"
             /\ pending_writes' = pending_writes]_vars

\* C10, its case: with writes buffered, a store at a misaligned address
\* panicked
C10_Witness ==
    /\ status = "unaligned store"
    /\ last.op = "store_u32"
    /\ pending_writes # {}


(***************************************************************************)
(* Properties of PageTableInfo::new.                                        *)
(***************************************************************************)
\* the sum of a sequence of layer sizes
RECURSIVE Sum(_)
Sum(seq) == IF seq = <<>> THEN 0 ELSE seq[1] + Sum(Tail(seq))

\* the bytes added to a table of `size` bytes to fill its last block
Padding(size) == (BLOCK_BYTES - (size % BLOCK_BYTES)) % BLOCK_BYTES

\* padding the table moves the root address into the next page
Carries(base_addr, page_size, size) ==
    ((base_addr + size) % page_size) + Padding(size) >= page_size

\* C11, as stated: new fails only when base_addr < page_size; for every
\* base_addr >= page_size it completes, with num_pages equal to the root
\* page index, and the root-index assertion never fires.
C11_FailsOnlyBelowPageSize ==
    /\ pt.pc = "panic" => pt.page_table_addr < pt.page_size
    /\ pt.pc = "returned" => pt.info[1].num_pages = pt.info[1].root_idx

\* C11, amended: for a page size above the digest size, new fails when
\* base_addr < page_size (first assertion) and when padding the table to the
\* block size carries the root address into the next page (root-index
\* assertion); in every other case it returns, with num_pages equal to the
\* root page index.
C11_FailsBelowPageSizeOrOnCarry ==
    pt.page_size > DIGEST_BYTES =>
        /\ pt.pc = "panic" =>
              \/ /\ pt.msg = "assertion failed: max_mem >= page_size"
                 /\ pt.page_table_addr < pt.page_size
              \/ /\ pt.msg = "assertion failed: root_idx == num_pages"
                 /\ pt.page_table_addr >= pt.page_size
                 /\ Carries(pt.page_table_addr, pt.page_size, pt.page_table_size)
        /\ pt.pc = "returned" =>
              /\ pt.page_table_addr >= pt.page_size
              /\ ~Carries(pt.page_table_addr, pt.page_size, Sum(pt.layers))
              /\ pt.info[1].num_pages = pt.info[1].root_idx
        /\ pt.pc = "while" /\ while_cond(pt) => Len(pt.layers) < MaxLayers

\* the root-index assertion fired for a base of 31 pages of 1 KiB
C11_Witness ==
    /\ pt.pc = "panic"
    /\ pt.msg = "assertion failed: root_idx == num_pages"
    /\ pt.page_table_addr = 31744
    /\ pt.page_size = 1024


\* C12: of every construction that completes, table_size is the sum of the
\* layer sizes rounded up to the next multiple of 64, so a multiple of the
\* block size; a region of exactly one page has a table of two digests.
C12_TableSizeRounded ==
    pt.pc = "returned" =>
        LET info == pt.info[1] IN
        /\ info.page_table_size % 64 = 0
        /\ info.page_table_size >= Sum(info.layers)
        /\ info.page_table_size - Sum(info.layers) < 64
        /\ info.page_table_size % BLOCK_BYTES = 0
        /\ pt.page_table_addr = pt.page_size =>
              info.page_table_size = 2 * DIGEST_BYTES

\* a region of one page of 1 KiB, constructed
C12_Witness ==
    /\ pt.pc = "returned"
    /\ pt.page_table_addr = 1024
    /\ pt.page_size = 1024
    /\ pt.info[1].layers = <<32>>
    /\ pt.info[1].page_table_size = 64


\* the while loop of new has been left
LoopLeft ==
    \/ pt.pc = "returned"
    \/ pt.pc = "panic" /\ pt.msg = "assertion failed: root_idx == num_pages"

\* C13: the layer sizes follow the recurrence layer[0] = (base_addr /
\* page_size) * digest size, layer[i+1] = (layer[i] / page_size) * digest
\* size; every layer but the last is at least a page, the last is less than
\* a page; 256 MiB gives [8388608, 262144, 8192, 256] for pages of 1 KiB and
\* [2097152, 16384, 128] for pages of 4 KiB.
C13_LayerRecurrence ==
    LoopLeft =>
        LET layers == pt.layers
            n == Len(layers)
        IN  /\ n >= 1
            /\ layers[1] = (pt.page_table_addr \div pt.page_size) * 32
            /\ \A i \in 1..(n - 1) :
                  /\ layers[i + 1] = (layers[i] \div pt.page_size) * 32
                  /\ layers[i] >= pt.page_size
            /\ layers[n] < pt.page_size
            /\ pt.pc = "returned" => pt.info[1].layers = layers
            /\ pt.page_table_addr = 268435456 /\ pt.page_size = 1024 =>
                  /\ pt.pc = "returned"
                  /\ layers = <<8388608, 262144, 8192, 256>>
            /\ pt.page_table_addr = 268435456 /\ pt.page_size = 4096 =>
                  /\ pt.pc = "returned"
                  /\ layers = <<2097152, 16384, 128>>

\* the info of 256 MiB in pages of 4 KiB
C13_Witness ==
    /\ pt.pc = "returned"
    /\ pt.page_table_addr = 268435456
    /\ pt.page_size = 4096
    /\ Len(pt.info[1].layers) = 3


\* a step that is one iteration of the while loop
Iterating == pt.pc = "while" /\ pt'.pc = "while" /\ pt' # pt

\* C14, as stated: for every base_addr >= page_size each iteration of the
\* loop strictly decreases remain (so that the loop ends, with remain <
\* page_size).
C14_EveryIterationDecreases ==
    [][Iterating => pt'.remain < pt.remain]_vars

\* C14, amended: for every base_addr >= page_size and a page size above the
\* digest size, each iteration strictly decreases remain and the loop ends,
\* with remain < page_size.
C14_LoopTerminates ==
    /\ [][Iterating /\ pt.page_size > DIGEST_BYTES => pt'.remain < pt.remain]_vars
    /\ [](LoopLeft => pt.remain < pt.page_size)
    /\ (pt.pc = "while" /\ pt.page_size > DIGEST_BYTES) ~> LoopLeft

\* the loop of the real layout has ended after four iterations
C14_Witness ==
    /\ LoopLeft
    /\ pt.page_table_addr = PAGE_TABLE_START
    /\ pt.page_size > DIGEST_BYTES
    /\ Len(pt.layers) = 4
    /\ pt.remain < pt.page_size


\* C15: the root address is base_addr + table_size, the root page index is
\* root_addr / page_size, the root page begins at that index times the page
\* size, and it holds (root_addr - root_page_addr) / digest size entries; the
\* real layout (pages of 1 KiB at the configured base) has the layers
\* [6815744, 212992, 6656, 192], a table of 7035584 bytes, the root address
\* 0xD6B5AC0 in the page at 0xD6B5800 with index 219862, and 22 root entries.
C15_RootDerivation ==
    pt.pc = "returned" =>
        LET info == pt.info[1] IN
        /\ info.root_addr = pt.page_table_addr + info.page_table_size
        /\ info.root_idx = info.root_addr \div pt.page_size
        /\ info.root_page_addr = info.root_idx * pt.page_size
        /\ info.root_page_addr <= info.root_addr
        /\ info.root_addr < info.root_page_addr + pt.page_size
        /\ info.num_root_entries = (info.root_addr - info.root_page_addr) \div 32
        /\ pt.page_table_addr = PAGE_TABLE_START /\ pt.page_size = 1024 =>
              /\ info.layers = <<6815744, 212992, 6656, 192>>
              /\ info.page_table_size = 7035584
              /\ info.root_addr = 225139392
              /\ info.root_page_addr = 225138688
              /\ info.root_idx = 219862
              /\ info.num_root_entries = 22

\* the info of the real layout
C15_Witness ==
    /\ pt.pc = "returned"
    /\ pt.page_table_addr = PAGE_TABLE_START
    /\ pt.page_size = 1024
    /\ pt.info[1].num_root_entries = 22


(***************************************************************************)
(* Properties of MemoryImage.                                               *)
(***************************************************************************)
\* the bytes root_page_addr..root_addr of the image
RootPage(image) ==
    Slice(image.buf, image.info.root_page_addr,
          image.info.root_addr - image.info.root_page_addr)

\* C16: right after MemoryImage::new, check(addr) succeeds for every address
\* of the primary memory and for the root page.
C16_CheckAfterNew ==
    img.pc = "constructed" =>
        \A addr \in CheckAddrs(img.image[1]) : check(img.image[1], addr) = "Ok"

\* C17: get_root returns the digest of the root page as it stands: hash_page
\* of the bytes root_page_addr..root_addr.
C17_RootOfRootPage ==
    img.pc = "constructed" /\ img.root # None =>
        img.root[1] = hash_page(RootPage(img.image[1]))


(***************************************************************************)
(* Properties of the monitor, continued.                                    *)
(***************************************************************************)
\* C18: a commit whose pending writes include an address past the image is
\* fatal: it panics, and does not complete as a commit does (the result is
\* not consumed, no syscall is logged, the buffer is not emptied).
C18_OutOfBoundsFatal ==
    [][(Committing /\ \E w \in pending_writes : w.addr >= BufLen) =>
          /\ status' = "index out of bounds"
          /\ op_result' = op_result
          /\ syscalls' = syscalls
          /\ pending_writes' = pending_writes]_vars

\* a commit has panicked on a buffered write past the image
C18_Witness ==
    /\ last.op = "commit"
    /\ status = "index out of bounds"
    /\ \E w \in pending_writes : w.addr >= BufLen
    /\ op_result # None


\* self.image.info of the monitor: the real layout
MonitorInfo == PageTableInfo_new(PAGE_TABLE_START, PAGE_SIZE).info[1]

\* the pages include walks through from addr: the page of addr, the page of
\* its page-table entry, and so on up to the root page
RECURSIVE PagesToRoot(_, _)
PagesToRoot(info, addr) ==
    LET page_idx == get_page_index(info, addr) IN
    IF page_idx >= info.root_idx THEN {page_idx}
    ELSE {page_idx} \cup PagesToRoot(info, get_page_entry_addr(info, page_idx))

\* C19: a store marks the page it accesses and every page on the way up to
\* the root as touched, for reads and for writes (and a load marks them for
\* reads); clear_segment keeps the marks of the session.
C19_TouchSets ==
    (status = "ok" /\ last.op = "store_u8") =>
        LET pages == PagesToRoot(MonitorInfo, last.addr) IN
        /\ pages \subseteq faults(Self).reads \cup pending_faults(Self).reads
        /\ pages \subseteq faults(Self).writes \cup pending_faults(Self).writes


\* the byte stores of one store_register(idx, data)
StoresOfRegister(idx, data) ==
    [k \in 1..DOUBLE_WORD_SIZE |->
        MemStore(get_register_addr(idx) + (k - 1), to_le_bytes(data)[k])]

\* C20: register idx is the double-word at register_base + idx * 8; for
\* registers i # j inside the image and every value v, store_register(i, v)
\* then save_op and commit makes load_register(i) return v and leaves what
\* load_register(j) returns as it was.
C20_RegisterRoundTrip ==
    [][(Committing /\ status' = "ok") =>
          \A i \in Regs, v \in RegValues :
              issued = StoresOfRegister(i, v) =>
                  /\ \A k \in 1..8 : issued[k].addr = SYSTEM_START + i * 8 + (k - 1)
                  /\ load_register(Self', i).ret = v
                  /\ \A j \in Regs \ {i} :
                        load_register(Self', j).ret = load_register(Self, j).ret]_vars

\* register 1 holds a value committed by one store_register, and register 0
\* what the image was constructed with
C20_Witness ==
    /\ last.op = "commit"
    /\ status = "ok"
    /\ nStores = 1
    /\ load_register(Self, 1).ret = <<65535, 0, 1, 32768>>
    /\ \A a \in 0..7 : buf[a] = 16 + 7 * a


(***************************************************************************)
(* Properties of the multi-byte accesses.                                   *)
(***************************************************************************)
\* bits 8i..8i+7 of the unsigned value v (limbs of 16 bits, the lowest first)
BitsOf(v, i) ==
    IF i % 2 = 0 THEN v[(i \div 2) + 1] % 256
                 ELSE (v[(i \div 2) + 1] \div 256) % 256

\* the byte stores that put the low w bytes of v at addr, the lowest first
LittleEndianStores(addr, v, w) ==
    {MemStore(addr + i, BitsOf(v, i)) : i \in 0..(w - 1)}

\* the one value the stores of `iss` gave address a
TheStoredAt(iss, a) == CHOOSE v \in StoredAt(iss, a) : TRUE

\* the load of width w, its value as limbs
LoadedLimbs(self, addr, w) ==
    IF w = 1 THEN <<load_u8(self, addr).ret>> ELSE LoadOf(self, addr, w).ret

\* C21: a store of width w in {1, 2, 4, 8} at a w-aligned address buffers
\* bits 8i..8i+7 of the value for byte addr+i, write_mem buffers the low 8*w
\* bits of its 64-bit argument so and returns true; after save_op and commit
\* byte addr+i holds what was stored there, the load of width w returns the
\* value of these bytes, and read_mem returns it zero-extended.
C21_LittleEndianRoundTrip ==
    /\ [][\A a \in {b \in Addrs : Storing /\ b = last'.addr} :
            /\ \A v \in HalfWords :
                  (call_store_u16(a, v) /\ status' = "ok") =>
                      pending_writes' = pending_writes \cup LittleEndianStores(a, v, 2)
            /\ \A v \in Words :
                  (call_store_u32(a, v) /\ status' = "ok") =>
                      pending_writes' = pending_writes \cup LittleEndianStores(a, v, 4)
            /\ \A v \in DoubleWords :
                  (call_store_u64(a, v) /\ status' = "ok") =>
                      pending_writes' = pending_writes \cup LittleEndianStores(a, v, 8)
            /\ \A d \in StoreData, w \in Sizes :
                  (call_write_mem(a, w, d) /\ status' = "ok") =>
                      /\ a % w = 0
                      /\ pending_writes' = pending_writes \cup LittleEndianStores(a, d, w)
                      /\ write_mem(Self, a, w, d).ret = TRUE]_vars
    /\ [][(Committing /\ status' = "ok") =>
            \A w \in Sizes, a \in ImageAddrs :
                (/\ a % w = 0
                 /\ a + w <= BufLen
                 /\ \A i \in 0..(w - 1) : Cardinality(StoredAt(issued, a + i)) = 1) =>
                    LET v == LoadedLimbs(Self', a, w)
                        x == read_mem(Self', a, w).ret[1]
                    IN  /\ 2 * Len(v) = IF w = 1 THEN 2 ELSE w
                        /\ Len(x) = 4
                        /\ \A i \in 0..(w - 1) :
                              /\ buf'[a + i] = TheStoredAt(issued, a + i)
                              /\ BitsOf(v, i) = TheStoredAt(issued, a + i)
                              /\ BitsOf(x, i) = TheStoredAt(issued, a + i)
                        /\ \A i \in w..7 : BitsOf(x, i) = 0
                        /\ w = 1 => v[1] < 256]_vars

\* a double-word stored at address 0 has been committed and is loaded back
C21_Witness ==
    /\ last.op = "commit"
    /\ status = "ok"
    /\ nCommits = 1
    /\ load_u64(Self, 0).ret = <<2055, 2569, 3083, 3597>>
    /\ buf[0] = 7 /\ buf[1] = 8 /\ buf[7] = 14


(***************************************************************************)
(* Properties of the loads.                                                 *)
(***************************************************************************)
\* the loads and their arguments, as <<name, argument, argument>>
LoadCalls ==
    ({"load_u8", "load_u16", "load_u32", "load_u64", "load_string"} \X Addrs \X {0})
    \cup ({"load_array"} \X Addrs \X ArrayLens)
    \cup ({"read_mem"} \X Addrs \X Sizes)
    \cup ({"load_register"} \X Regs \X {0})
    \cup ({"load_registers"} \X Regs \X Regs)
    \cup {<<"restore_op", 0, 0>>}

\* what the load c does to the struct and returns
Loading(self, c) ==
    CASE c[1] = "load_u8" -> load_u8(self, c[2])
      [] c[1] = "load_u16" -> load_u16(self, c[2])
      [] c[1] = "load_u32" -> load_u32(self, c[2])
      [] c[1] = "load_u64" -> load_u64(self, c[2])
      [] c[1] = "load_string" -> load_string(self, c[2])
      [] c[1] = "load_array" -> load_array(self, c[2], c[3])
      [] c[1] = "read_mem" -> read_mem(self, c[2], c[3])
      [] c[1] = "load_register" -> load_register(self, c[2])
      [] c[1] = "load_registers" -> load_registers(self, <<c[2], c[3]>>)
      [] c[1] = "restore_op" -> restore_op(self)

\* C22: the loads (load_u8/u16/u32/u64, load_array, load_register(s),
\* load_string, read_mem, restore_op) leave the image, the pending-write
\* buffer, the saved result and the syscall log as they are, so the same load
\* called again, with no commit in between, returns the same value.
C22_LoadsReadOnly ==
    /\ [][LoadCall =>
            /\ buf' = buf
            /\ pending_writes' = pending_writes
            /\ op_result' = op_result
            /\ syscalls' = syscalls]_vars
    /\ [](status = "ok" =>
            \A c \in LoadCalls :
                LET r == Loading(Self, c) IN
                /\ r.self.buf = buf
                /\ r.self.pending_writes = pending_writes
                /\ r.self.op_result = op_result
                /\ r.self.syscalls = syscalls
                /\ Ok(r.self) => Loading(r.self, c).ret = r.ret)

\* with a write buffered, a result saved and a syscall logged, the loads
\* return the committed string and the saved result
C22_Witness ==
    /\ status = "ok"
    /\ pending_writes # {}
    /\ op_result # None
    /\ syscalls # <<>>
    /\ Ok(load_string(Self, 0).self)
    /\ load_string(Self, 0).ret = [ok |-> TRUE, chars |-> <<65>>]
    /\ restore_op(Self).ret = op_result


(***************************************************************************)
(* Properties of commit, continued.                                         *)
(***************************************************************************)
\* C23: a commit changes only the addresses written: every byte of the image
\* whose address has no entry in the pending-write buffer holds after the
\* commit what it held before.
C23_CommitFrame ==
    [][Committing =>
          \A a \in ImageAddrs :
              (\A w \in pending_writes : w.addr # a) => buf'[a] = buf[a]]_vars

\* a commit has written address 0 and left address 1 as constructed
C23_Witness ==
    /\ last.op = "commit"
    /\ status = "ok"
    /\ nCommits = 1
    /\ results # <<>>
    /\ buf[0] = 1
    /\ buf[1] = 16 + 7
    /\ written[0] # <<>>
    /\ written[1] = <<>>

====
